---------------------------- MODULE Spec2Model ----------------------------
(***************************************************************************)
(* Model of src/BTC14.py: the address database (AddressDatabase), the       *)
(* wallet generator (WalletGenerator), the scanning threads (ScannerWorker) *)
(* and the handlers of the main window that load, start and stop a scan     *)
(* and receive the workers' queued signals.                                 *)
(***************************************************************************)
EXTENDS Integers, Sequences, FiniteSets, TLC

(***************************************************************************)
(* Bounds of the model.                                                     *)
(***************************************************************************)
\* iterations that reach line 295, over all workers of one behaviour
MaxIter == 2
\* ScannerWorker objects created in one behaviour, and so the largest
\* value of the thread spin box that is explored
MaxWorkers == 2
\* calls of generate() that raise, over all workers of one behaviour
MaxRaise == 3
\* writes to the address files by the environment
MaxWrites == 2
\* iterations of the worker where the progress signals are explored
MaxBatchIter == 50

(***************************************************************************)
(* Program constants.                                                       *)
(***************************************************************************)
BATCH_SIZE == 100000
DISPLAY_HISTORY == 10
ADDRESS_TYPES == <<"P2PKH", "P2SH-P2WPKH", "P2WPKH", "P2TR">>

\* Python's None, for an address (a sequence of characters) that is missing
None == <<>>
\* None, for WalletGenerator._last_generation
NoGeneration == [serial |-> 0]

Range(s) == {s[i] : i \in 1..Len(s)}

(***************************************************************************)
(* Text.  A line of the address file is a sequence of characters; " " is    *)
(* whitespace and BadByte a byte that is not valid UTF-8.                   *)
(***************************************************************************)
BadByte == "xFF"
Whitespace == {" "}

RECURSIVE LStrip(_)
LStrip(s) == IF s # <<>> /\ Head(s) \in Whitespace THEN LStrip(Tail(s)) ELSE s

RECURSIVE RStrip(_)
RStrip(s) ==
    IF s # <<>> /\ s[Len(s)] \in Whitespace
    THEN RStrip(SubSeq(s, 1, Len(s) - 1))
    ELSE s

\* bytes.strip()
Strip(s) == RStrip(LStrip(s))

\* bytes.decode('utf-8') raises UnicodeDecodeError on an invalid byte
DecodeRaises(s) == BadByte \in Range(s)

(***************************************************************************)
(* The loop of AddressDatabase.load over the lines of the mapped file.      *)
(* st = [temp_set, temp_list, batch, batch_list, ok]; ok = FALSE when a     *)
(* line raised.                                                             *)
(***************************************************************************)
RECURSIVE ReadLoop(_, _)
ReadLoop(lines, st) ==
    IF lines = <<>>
    THEN \* line 156: the last, partial batch
         IF st.batch # {}
         THEN [st EXCEPT !.temp_set = st.temp_set \cup st.batch,
                         !.temp_list = st.temp_list \o st.batch_list,
                         !.batch = {}, !.batch_list = <<>>]
         ELSE st
    ELSE LET addr == Strip(Head(lines)) IN
         IF DecodeRaises(addr)
         THEN [st EXCEPT !.ok = FALSE]
         ELSE IF addr = <<>>
         THEN ReadLoop(Tail(lines), st)
         ELSE LET b == st.batch \cup {addr}
                  bl == Append(st.batch_list, addr)
              IN IF Cardinality(b) >= BATCH_SIZE
                 THEN ReadLoop(Tail(lines),
                               [st EXCEPT !.temp_set = st.temp_set \cup b,
                                          !.temp_list = st.temp_list \o bl,
                                          !.batch = {}, !.batch_list = <<>>])
                 ELSE ReadLoop(Tail(lines),
                               [st EXCEPT !.batch = b, !.batch_list = bl])

ReadStart == [temp_set |-> {}, temp_list |-> <<>>, batch |-> {},
              batch_list |-> <<>>, ok |-> TRUE]

(***************************************************************************)
(* A file: NoFile, or [mtime, readable, lines].  open() raises on a file    *)
(* that is not readable, mmap raises on an empty file.                      *)
(***************************************************************************)
NoFile == [exists |-> FALSE]
File(m, r, ls) == [exists |-> TRUE, mtime |-> m, readable |-> r, lines |-> ls]

\* the with-blocks of load, lines 138-158: the sets read, or ok = FALSE
ReadFile(f) ==
    IF ~f.readable \/ f.lines = <<>>
    THEN [ReadStart EXCEPT !.ok = FALSE]
    ELSE ReadLoop(f.lines, ReadStart)


(***************************************************************************)
(* AddressDatabase.  db = [addresses, address_list, count, file_path,       *)
(* last_modified]; load returns the database after the call and the value   *)
(* returned (ret); skipped marks the return of line 131.                    *)
(***************************************************************************)
EmptyDb == [addresses |-> {}, address_list |-> <<>>, count |-> 0,
            file_path |-> "", last_modified |-> 0]

\* a load that publishes what it has read so far when reading fails
load_partial(db, fs, file_path) ==
    LET f == fs[file_path] IN
    IF ~f.exists
    THEN [db |-> db, ret |-> FALSE, skipped |-> FALSE]
    ELSE IF db.file_path = file_path /\ db.last_modified = f.mtime
    THEN [db |-> db, ret |-> TRUE, skipped |-> TRUE]
    ELSE LET r == ReadFile(f)
             s == r.temp_set \cup r.batch
         IN [db |-> [addresses |-> s,
                     address_list |-> r.temp_list \o r.batch_list,
                     count |-> Cardinality(s),
                     file_path |-> file_path,
                     last_modified |-> f.mtime],
             ret |-> r.ok, skipped |-> FALSE]

load(db, fs, file_path) ==
    LET f == fs[file_path] IN
    IF ~f.exists
    THEN \* line 126
         [db |-> db, ret |-> FALSE, skipped |-> FALSE]
    ELSE IF db.file_path = file_path /\ db.last_modified = f.mtime
    THEN \* line 131
         [db |-> db, ret |-> TRUE, skipped |-> TRUE]
    ELSE \* lines 133-134 run before the file is opened
         LET r == ReadFile(f)
             db1 == [db EXCEPT !.last_modified = f.mtime,
                               !.file_path = file_path]
         IN IF r.ok
            THEN \* lines 160-166
                 [db |-> [db1 EXCEPT !.addresses = r.temp_set,
                                     !.address_list = r.temp_list,
                                     !.count = Cardinality(r.temp_set)],
                  ret |-> TRUE, skipped |-> FALSE]
            ELSE \* lines 167-169
                 [db |-> db1, ret |-> FALSE, skipped |-> FALSE]

count(db) == db.count

contains(db, address) == address \in db.addresses

\* address_list[::step]
RECURSIVE Stride(_, _)
Stride(s, step) ==
    IF s = <<>> THEN <<>>
    ELSE <<Head(s)>> \o Stride(SubSeq(s, step + 1, Len(s)), step)

Take(s, n) == SubSeq(s, 1, IF n < Len(s) THEN n ELSE Len(s))

\* the list returned; raised marks the ZeroDivisionError of line 187
get_sample_addresses(db, n) ==
    IF Len(db.address_list) <= n
    THEN [raised |-> FALSE, value |-> db.address_list]
    ELSE IF n = 0
    THEN [raised |-> TRUE, value |-> <<>>]
    ELSE [raised |-> FALSE,
          value |-> Take(Stride(db.address_list,
                                Len(db.address_list) \div n), n)]

(***************************************************************************)
(* WalletGenerator.  A mnemonic is [words, ent]: the number of words that   *)
(* Mnemonic.generate returns for the strength and the entropy drawn.        *)
(***************************************************************************)
strengths == [x \in {"12", "24"} |-> IF x = "12" THEN 128 ELSE 256]

\* Mnemonic.generate(strength): 3 words for every 32 bits of entropy
MnemonicOf(strength, ent) == [words |-> (strength * 3) \div 32, ent |-> ent]

AddrChars == <<"a", "b", "c", "d", "e", "f", "g", "h">>
Prefix == [t \in Range(ADDRESS_TYPES) |->
            CASE t = "P2PKH" -> "1"
              [] t = "P2SH-P2WPKH" -> "3"
              [] t = "P2WPKH" -> "q"
              [] t = "P2TR" -> "p"]

\* bip_class.FromSeed(seed, coin).DeriveDefaultPath().PublicKey().ToAddress():
\* a function of the mnemonic and the scheme alone
ToAddress(mnemonic, addr_type) ==
    <<Prefix[addr_type],
      AddrChars[2 * (mnemonic.ent - 1) + (IF mnemonic.words = 12 THEN 1 ELSE 2)]>>

\* a derivation loop that a failing scheme aborts: no address is kept
DeriveAll_abort(mnemonic, fail) ==
    [t \in Range(ADDRESS_TYPES) |->
        IF fail # {} THEN None ELSE ToAddress(mnemonic, t)]

\* lines 215-222; fail is the set of schemes whose derivation raises
DeriveAll(mnemonic, fail) ==
    [t \in Range(ADDRESS_TYPES) |->
        IF t \in fail THEN None ELSE ToAddress(mnemonic, t)]

\* a history that drops the newest generation when it is full
Trim_newest(history) ==
    IF Len(history) > DISPLAY_HISTORY
    THEN SubSeq(history, 1, Len(history) - 1)
    ELSE history

\* lines 235-236
Trim(history) ==
    IF Len(history) > DISPLAY_HISTORY THEN Tail(history) ELSE history


(***************************************************************************)
(* State.                                                                   *)
(*  files, writes       the address files on disk, and how often they were  *)
(*                      written (the clock of their mtime)                  *)
(*  address_db          MainWindow.address_db                               *)
(*  lastLoad, okLoad    history: the last call of load (its path, the mtime *)
(*                      it saw, what it returned, okLoad before it) and the *)
(*                      path and mtime of the last load that built a        *)
(*                      snapshot                                            *)
(*  config              MainWindow.config.config, the dict every worker     *)
(*                      holds a reference to                                *)
(*  workers             MainWindow.workers, a list of thread objects        *)
(*  thread              every ScannerWorker object created so far           *)
(*  queue               the signals posted to the main thread and not yet   *)
(*                      handled by their slots                              *)
(*  results             the records handle_found has written                *)
(*  main, stopIdx       where the main thread is: in its event loop, or in  *)
(*                      stop_scan waiting for workers[stopIdx]              *)
(*  lastLog             the last message that a handler of the main window  *)
(*                      gave to log_message                                 *)
(*  lock                who holds AddressDatabase.lock                      *)
(*  loading             a call of load that is under way, step by step: its *)
(*                      position, temp_set and temp_list, and the value the *)
(*                      last call returned                                  *)
(*  reading             a call of count, contains or get_sample_addresses   *)
(*                      by another thread: its position, and what it saw of *)
(*                      the database when it held the lock                  *)
(***************************************************************************)
VARIABLES files, writes, address_db, lastLoad, okLoad, config, workers,
          thread, queue, results, total_checked, total_found,
          btn_start, btn_stop, lastLog, main, stopIdx,
          lock, loading, reading

vars == <<files, writes, address_db, lastLoad, okLoad, config, workers,
          thread, queue, results, total_checked, total_found,
          btn_start, btn_stop, lastLog, main, stopIdx,
          lock, loading, reading>>

lockVars == <<lock, loading, reading>>
dbVars == <<address_db, lastLoad, okLoad, lockVars>>
fsVars == <<files, writes>>
poolVars == <<config, workers, thread, total_checked, total_found,
              btn_start, btn_stop, main, stopIdx>>
sinkVars == <<queue, results>>

Paths == {"p1", "p2"}
Modes == {"random", "12", "24"}

Min(a, b) == IF a < b THEN a ELSE b

\* ScannerWorker.__init__, with the history variables of the model:
\*  stop_requested  stop() has been called on the object
\*  after_stop      iterations completed since then (counted up to 2)
\*  raised          iterations in which generate() caught an exception
\*  errors          error signals emitted
\*  streak          failed iterations in a row
\*  sent            the found signals emitted
\*  generated       generations built (the serial number of the last one)
\*  iterations      iterations that got to line 295 (candidates processed)
\*  progress        the progress signals emitted: the count each carried
\*                  and the iterations done when it was emitted
ScannerWorker(worker_id, cfg) ==
    [id |-> worker_id, mode |-> cfg.mnemonic_mode, pc |-> "started",
     running |-> FALSE, checked |-> 0, found |-> 0,
     last_generation |-> NoGeneration, generation_history |-> <<>>,
     stop_requested |-> FALSE, after_stop |-> 0, raised |-> 0, errors |-> 0,
     streak |-> 0, sent |-> <<>>, generated |-> 0, iterations |-> 0,
     progress |-> <<>>]

Objects == 1..Len(thread)

default_config == [thread_limit |-> 1, mnemonic_mode |-> "random",
                   active_address_types |-> ADDRESS_TYPES]

\* no call of load is under way; ret is what the last one returned
NotLoading(ret) ==
    [pc |-> "idle", ret |-> ret, temp_set |-> {}, temp_list |-> <<>>]

\* the fields that load assigns under the lock, lines 161-163
Published(db) ==
    [addresses |-> db.addresses, address_list |-> db.address_list,
     count |-> db.count]

InitCommon ==
    /\ writes = 0
    /\ address_db = EmptyDb
    /\ lastLoad = [path |-> "", mtime |-> 0, ret |-> FALSE, skipped |-> FALSE,
                   prevOk |-> <<>>]
    /\ okLoad = <<>>
    /\ config = default_config
    /\ workers = <<>>
    /\ thread = <<>>
    /\ queue = <<>>
    /\ results = <<>>
    /\ total_checked = 0
    /\ total_found = 0
    /\ btn_start = TRUE
    /\ btn_stop = FALSE
    /\ lastLog = ""
    /\ main = "idle"
    /\ stopIdx = 0
    /\ lock = "free"
    /\ loading = NotLoading(FALSE)
    /\ reading = [pc |-> "idle", call |-> "count", seen |-> Published(EmptyDb)]

(***************************************************************************)
(* The environment: the files the user can choose.                          *)
(***************************************************************************)
\* one address, given twice (once with surrounding blanks) and a blank line
GoodLines == << <<"1", "a">>, <<" ", "1", "a", " ">>, <<" ">> >>
\* a good line, then a line that is not UTF-8
BadLines == << <<"1", "b">>, <<BadByte>> >>
\* two addresses that differ in case only, and a blank line between them
CaseLines == << <<"1", "a">>, <<>>, <<"1", "A">> >>
\* only blank lines
BlankLines == << <<" ">>, <<>> >>

FileData == {[readable |-> TRUE, lines |-> GoodLines],
             [readable |-> TRUE, lines |-> BadLines],
             [readable |-> TRUE, lines |-> CaseLines],
             [readable |-> TRUE, lines |-> BlankLines],
             [readable |-> TRUE, lines |-> <<>>],
             [readable |-> FALSE, lines |-> GoodLines]}

WriteFile(p, d) ==
    /\ writes < MaxWrites
    /\ writes' = writes + 1
    /\ files' = [files EXCEPT ![p] = File(writes + 1, d.readable, d.lines)]
    /\ UNCHANGED <<dbVars, poolVars, sinkVars, lastLog>>

DeleteFile(p) ==
    /\ files[p].exists
    /\ files' = [files EXCEPT ![p] = NoFile]
    /\ UNCHANGED <<writes, dbVars, poolVars, sinkVars, lastLog>>

(***************************************************************************)
(* MainWindow.load_address_file, for the path the dialog returns.  The keys *)
(* last_directory, address_files and address_count that it writes to the    *)
(* configuration are read by no worker and are not part of config here.     *)
(***************************************************************************)
load_address_file(path) ==
    /\ main = "idle"
    /\ LET r == load(address_db, files, path) IN
       /\ address_db' = r.db
       /\ lastLog' = IF r.ret THEN "Successfully loaded"
                              ELSE "Failed to load address file"
    /\ UNCHANGED <<fsVars, poolVars, sinkVars, lockVars>>

\* load_address_file, and the history of the calls of load
LoadRecorded(path) ==
    /\ load_address_file(path)
    /\ LET r == load(address_db, files, path) IN
       /\ lastLoad' = [path |-> path,
                       mtime |-> IF files[path].exists
                                 THEN files[path].mtime ELSE 0,
                       ret |-> r.ret, skipped |-> r.skipped,
                       prevOk |-> okLoad]
       /\ okLoad' = IF r.ret /\ ~r.skipped
                    THEN <<path, files[path].mtime>>
                    ELSE okLoad

\* load_address_file where the history of the calls of load is not kept
Load(path) == load_address_file(path) /\ UNCHANGED <<lastLoad, okLoad>>

(***************************************************************************)
(* AddressDatabase.load step by step, with a thread that calls count,       *)
(* contains or get_sample_addresses meanwhile.  Lines 121-158 touch only    *)
(* file_path, _last_modified and locals and are one step; the assignments   *)
(* of lines 161-163 are one step each.                                      *)
(***************************************************************************)
\* lines 121-158
LoadBegin(path) ==
    /\ loading.pc = "idle"
    /\ LET f == files[path] IN
       IF ~f.exists
       THEN /\ loading' = NotLoading(FALSE)
            /\ UNCHANGED address_db
       ELSE IF address_db.file_path = path /\ address_db.last_modified = f.mtime
       THEN /\ loading' = NotLoading(TRUE)
            /\ UNCHANGED address_db
       ELSE LET r == ReadFile(f) IN
            /\ address_db' = [address_db EXCEPT !.last_modified = f.mtime,
                                                !.file_path = path]
            /\ loading' = IF r.ok
                          THEN [pc |-> "acquire", ret |-> FALSE,
                                temp_set |-> r.temp_set,
                                temp_list |-> r.temp_list]
                          ELSE NotLoading(FALSE)
    /\ UNCHANGED <<fsVars, lastLoad, okLoad, lock, reading, poolVars,
                   sinkVars, lastLog>>

\* a load that does not take the lock
LoadLock_unlocked ==
    /\ loading.pc = "acquire"
    /\ loading' = [loading EXCEPT !.pc = "l161"]
    /\ UNCHANGED <<fsVars, address_db, lastLoad, okLoad, lock, reading,
                   poolVars, sinkVars, lastLog>>

\* line 160: with self.lock
LoadLock ==
    /\ loading.pc = "acquire"
    /\ lock = "free"
    /\ lock' = "load"
    /\ loading' = [loading EXCEPT !.pc = "l161"]
    /\ UNCHANGED <<fsVars, address_db, lastLoad, okLoad, reading, poolVars,
                   sinkVars, lastLog>>

\* lines 161, 162 and 163
LoadAssign ==
    /\ loading.pc \in {"l161", "l162", "l163"}
    /\ address_db' =
          CASE loading.pc = "l161" ->
                 [address_db EXCEPT !.addresses = loading.temp_set]
            [] loading.pc = "l162" ->
                 [address_db EXCEPT !.address_list = loading.temp_list]
            [] loading.pc = "l163" ->
                 [address_db EXCEPT !.count = Cardinality(address_db.addresses)]
    /\ loading' = [loading EXCEPT
                     !.pc = CASE loading.pc = "l161" -> "l162"
                              [] loading.pc = "l162" -> "l163"
                              [] loading.pc = "l163" -> "release"]
    /\ UNCHANGED <<fsVars, lastLoad, okLoad, lock, reading, poolVars,
                   sinkVars, lastLog>>

\* the end of the with block, and line 166
LoadUnlock ==
    /\ loading.pc = "release"
    /\ lock' = "free"
    /\ loading' = NotLoading(TRUE)
    /\ UNCHANGED <<fsVars, address_db, lastLoad, okLoad, reading, poolVars,
                   sinkVars, lastLog>>

Calls == {"count", "contains", "get_sample_addresses"}

\* with self.lock, lines 174, 179 and 184
ReadLock(call) ==
    /\ reading.pc = "idle"
    /\ lock = "free"
    /\ lock' = "reader"
    /\ reading' = [reading EXCEPT !.pc = "locked", !.call = call]
    /\ UNCHANGED <<fsVars, address_db, lastLoad, okLoad, loading, poolVars,
                   sinkVars, lastLog>>

\* lines 175, 180 and 185-188: the call reads the database and returns
ReadUnlock ==
    /\ reading.pc = "locked"
    /\ lock' = "free"
    /\ reading' = [reading EXCEPT !.pc = "idle",
                                  !.seen = Published(address_db)]
    /\ UNCHANGED <<fsVars, address_db, lastLoad, okLoad, loading, poolVars,
                   sinkVars, lastLog>>

(***************************************************************************)
(* MainWindow.start_scan.  thread_limit, mode and active are what the spin  *)
(* box, the combo box and the check boxes hold when the button is clicked.  *)
(* The button is disabled from a successful start to the end of stop_scan,  *)
(* so the list of workers is empty here (StartOnlyWhenNoWorkers) and the    *)
(* call of stop_scan at line 713 returns at line 738.                       *)
(***************************************************************************)
\* workers that all get the id 1
NewWorkers_same_id(cfg) ==
    [i \in 1..cfg.thread_limit |-> ScannerWorker(1, cfg)]

\* lines 721-728
NewWorkers(cfg) ==
    [i \in 1..cfg.thread_limit |-> ScannerWorker(i, cfg)]

\* a start_scan without the check of lines 694-696
start_scan_unchecked(thread_limit, mode, active) ==
    /\ main = "idle"
    /\ btn_start
    /\ workers = <<>>
    /\ Len(thread) + thread_limit <= MaxWorkers
    /\ LET cfg == [thread_limit |-> thread_limit, mnemonic_mode |-> mode,
                   active_address_types |-> active]
       IN /\ config' = cfg
          /\ total_checked' = 0
          /\ total_found' = 0
          /\ thread' = thread \o NewWorkers(cfg)
          /\ workers' = [i \in 1..thread_limit |-> Len(thread) + i]
          /\ btn_start' = FALSE
          /\ btn_stop' = TRUE
          /\ lastLog' = "Scanning started"
    /\ UNCHANGED <<fsVars, dbVars, sinkVars, main, stopIdx>>

start_scan(thread_limit, mode, active) ==
    /\ main = "idle"
    /\ btn_start
    /\ workers = <<>>
    /\ IF count(address_db) = 0
       THEN \* lines 694-696
            /\ lastLog' = "Error: No addresses loaded"
            /\ UNCHANGED <<fsVars, dbVars, poolVars, sinkVars>>
       ELSE /\ Len(thread) + thread_limit <= MaxWorkers
            /\ LET cfg == [thread_limit |-> thread_limit,
                           mnemonic_mode |-> mode,
                           active_address_types |-> active]
               IN /\ config' = cfg
                  /\ total_checked' = 0
                  /\ total_found' = 0
                  /\ thread' = thread \o NewWorkers(cfg)
                  /\ workers' = [i \in 1..thread_limit |-> Len(thread) + i]
                  /\ btn_start' = FALSE
                  /\ btn_stop' = TRUE
                  /\ lastLog' = "Scanning started"
            /\ UNCHANGED <<fsVars, dbVars, sinkVars, main, stopIdx>>

(***************************************************************************)
(* MainWindow.stop_scan and ScannerWorker.stop.  stop() clears the flag of  *)
(* the worker and waits for its thread; the wait returns when run() has     *)
(* returned, or after 5 seconds.  A thread whose flag is clear leaves run() *)
(* at its next test of line 273, which the model takes to be less than 5    *)
(* seconds away: the wait times out only on a thread whose flag is set.     *)
(* The main thread handles no signal while it waits.                        *)
(***************************************************************************)
\* self._running = False, line 329
RequestStop(th, o) ==
    [th EXCEPT ![o].running = FALSE, ![o].stop_requested = TRUE]

stop_scan ==
    /\ main = "idle"
    /\ btn_stop
    /\ workers # <<>>
    /\ thread' = RequestStop(thread, workers[1])
    /\ main' = "stop_scan"
    /\ stopIdx' = 1
    /\ UNCHANGED <<fsVars, dbVars, sinkVars, config, workers, total_checked,
                   total_found, btn_start, btn_stop, lastLog>>

\* after wait() has returned for workers[stopIdx]: the next worker of the
\* loop of line 740, or lines 743-746
StopNext ==
    IF stopIdx < Len(workers)
    THEN /\ thread' = RequestStop(thread, workers[stopIdx + 1])
         /\ stopIdx' = stopIdx + 1
         /\ UNCHANGED <<workers, btn_start, btn_stop, lastLog, main>>
    ELSE /\ workers' = <<>>
         /\ btn_start' = TRUE
         /\ btn_stop' = FALSE
         /\ lastLog' = "Scanning stopped"
         /\ main' = "idle"
         /\ stopIdx' = 0
         /\ UNCHANGED thread

\* wait(5000) returns True: the thread has finished
WaitFinished ==
    /\ main = "stop_scan"
    /\ thread[workers[stopIdx]].pc = "done"
    /\ StopNext
    /\ UNCHANGED <<fsVars, dbVars, sinkVars, config, total_checked,
                   total_found>>

\* wait(5000) returns False: the thread is still running after 5 seconds
WaitTimeout ==
    /\ main = "stop_scan"
    /\ thread[workers[stopIdx]].pc # "done"
    /\ thread[workers[stopIdx]].running
    /\ StopNext
    /\ UNCHANGED <<fsVars, dbVars, sinkVars, config, total_checked,
                   total_found>>


(***************************************************************************)
(* ScannerWorker.run, one step per access to what the threads share.        *)
(*  started   start() was called, run() has not executed line 269 yet       *)
(*  loop      at the test of line 273                                       *)
(*  generate  in _process_generation, before generate() at line 287         *)
(*  check     generate() has returned, before lines 288-322                 *)
(*  done      run() has returned                                            *)
(***************************************************************************)
\* line 269
RunBegin(o) ==
    /\ thread[o].pc = "started"
    /\ thread' = [thread EXCEPT ![o].running = TRUE, ![o].pc = "loop"]
    /\ UNCHANGED <<fsVars, dbVars, sinkVars, config, workers, total_checked,
                   total_found, btn_start, btn_stop, lastLog, main, stopIdx>>

\* the sum of _checked over the worker objects
RECURSIVE TotalChecked(_)
TotalChecked(th) ==
    IF th = <<>> THEN 0 ELSE Head(th).checked + TotalChecked(Tail(th))

\* line 273, and line 282 when the flag is clear; limit bounds the
\* iterations of the behaviour
LoopTestWithin(o, limit) ==
    /\ thread[o].pc = "loop"
    /\ thread[o].running => TotalChecked(thread) < Len(ADDRESS_TYPES) * limit
    /\ thread' = [thread EXCEPT
                    ![o].pc = IF thread[o].running THEN "generate" ELSE "done"]
    /\ UNCHANGED <<fsVars, dbVars, sinkVars, config, workers, total_checked,
                   total_found, btn_start, btn_stop, lastLog, main, stopIdx>>

LoopTest(o) == LoopTestWithin(o, MaxIter)

\* the end of an iteration: the history of the model, and back to line 273
EndIteration(w, failed) ==
    [w EXCEPT !.pc = "loop",
              !.streak = IF failed THEN w.streak + 1 ELSE 0,
              !.after_stop = IF w.stop_requested
                             THEN Min(2, w.after_stop + 1)
                             ELSE 0]

\* a generate() that draws the word length whatever the mode
Generation_any_length(w, wl, ent, fail) ==
    LET mnemonic == MnemonicOf(strengths[wl], ent)
    IN [mnemonic |-> mnemonic,
        addresses |-> DeriveAll(mnemonic, fail),
        word_length |-> wl,
        serial |-> w.generated + 1]

\* WalletGenerator.generate, lines 209-238, when nothing raises
\* (wl: what random.choice returns, ent: the entropy drawn, fail: the
\* schemes whose derivation raises)
Generation(w, wl, ent, fail) ==
    LET word_length == IF w.mode = "random" THEN wl ELSE w.mode
        mnemonic == MnemonicOf(strengths[word_length], ent)
    IN [mnemonic |-> mnemonic,
        addresses |-> DeriveAll(mnemonic, fail),
        word_length |-> word_length,
        serial |-> w.generated + 1]

\* the error signal of line 324
ErrorEvent(o, w) == [type |-> "error", obj |-> o, worker |-> w.id]

\* the calls of generate() that raised, over the worker objects
RECURSIVE TotalRaised(_)
TotalRaised(th) ==
    IF th = <<>> THEN 0 ELSE Head(th).raised + TotalRaised(Tail(th))

\* the call of generate() at line 287.  raises: Mnemonic.generate or the
\* seed generator raises; generate() then returns the last generation
\* (line 241) or raises itself (line 242), which line 324 reports with an
\* error signal.
Generate(o, raises, wl, ent, fail) ==
    /\ thread[o].pc = "generate"
    /\ raises => TotalRaised(thread) < MaxRaise
    /\ LET w == thread[o] IN
       IF raises
       THEN IF w.last_generation # NoGeneration
            THEN /\ thread' = [thread EXCEPT ![o].pc = "check",
                                             ![o].raised = w.raised + 1]
                 /\ UNCHANGED queue
            ELSE /\ thread' = [thread EXCEPT
                                 ![o] = [EndIteration(w, TRUE) EXCEPT
                                            !.raised = w.raised + 1,
                                            !.errors = w.errors + 1]]
                 /\ queue' = Append(queue, ErrorEvent(o, w))
       ELSE LET g == Generation(w, wl, ent, fail) IN
            /\ thread' = [thread EXCEPT
                            ![o].pc = "check",
                            ![o].last_generation = g,
                            ![o].generation_history =
                                Trim(Append(w.generation_history, g)),
                            ![o].generated = w.generated + 1]
            /\ UNCHANGED queue
    /\ UNCHANGED <<fsVars, dbVars, results, config, workers, total_checked,
                   total_found, btn_start, btn_stop, lastLog, main, stopIdx>>

\* a loop over every derived address, whatever the active address types
Hits_every_scheme(types, addresses, db) ==
    LET Hit(t) == addresses[t] # None /\ contains(db, addresses[t])
        sel == SelectSeq(ADDRESS_TYPES, Hit)
    IN [i \in 1..Len(sel) |-> <<sel[i], addresses[sel[i]]>>]

\* lines 290-293: the hits among the active address types, in their order
RECURSIVE Hits(_, _, _)
Hits(types, addresses, db) ==
    IF types = <<>> THEN <<>>
    ELSE LET addr_type == Head(types)
             addr == addresses[addr_type]
         IN (IF addr # None /\ contains(db, addr)
             THEN << <<addr_type, addr>> >>
             ELSE <<>>) \o Hits(Tail(types), addresses, db)

FoundEvent(o, w, g, found) ==
    [type |-> "found", obj |-> o, worker |-> w.id, mnemonic |-> g.mnemonic,
     matches |-> found, serial |-> g.serial, late |-> w.stop_requested]

ProgressEvent(o, w, checked, nfound) ==
    [type |-> "progress", obj |-> o, worker |-> w.id, checked |-> checked,
     found |-> nfound]

\* a _process_generation whose counter wraps at 100
Check_wrapping(o) ==
    /\ thread[o].pc = "check"
    /\ LET w == thread[o]
           g == w.last_generation
           found == Hits(config.active_address_types, g.addresses, address_db)
           checked == (w.checked + Cardinality(DOMAIN g.addresses)) % 100
           nfound == w.found + Len(found)
           fe == IF found # <<>> THEN <<FoundEvent(o, w, g, found)>> ELSE <<>>
           pe == IF checked % 100 = 0
                 THEN <<ProgressEvent(o, w, checked, nfound)>>
                 ELSE <<>>
       IN /\ thread' = [thread EXCEPT
                          ![o] = [EndIteration(w, FALSE) EXCEPT
                                     !.checked = checked,
                                     !.found = nfound,
                                     !.sent = w.sent \o fe,
                                     !.iterations = w.iterations + 1,
                                     !.progress = w.progress \o
                                        [k \in 1..Len(pe) |->
                                           [checked |-> pe[k].checked,
                                            candidates |->
                                                w.iterations + 1]]]]
          /\ queue' = queue \o fe \o pe
    /\ UNCHANGED <<fsVars, dbVars, results, config, workers, total_checked,
                   total_found, btn_start, btn_stop, lastLog, main, stopIdx>>

\* lines 288-322 for the generation that generate() returned.  The
\* generation signal of line 307 only feeds the table of the dashboard and
\* is not kept.
Check(o) ==
    /\ thread[o].pc = "check"
    /\ LET w == thread[o]
           g == w.last_generation
           found == Hits(config.active_address_types, g.addresses, address_db)
           checked == w.checked + Cardinality(DOMAIN g.addresses)
           nfound == w.found + Len(found)
           fe == IF found # <<>> THEN <<FoundEvent(o, w, g, found)>> ELSE <<>>
           pe == IF checked % 100 = 0
                 THEN <<ProgressEvent(o, w, checked, nfound)>>
                 ELSE <<>>
       IN /\ thread' = [thread EXCEPT
                          ![o] = [EndIteration(w, FALSE) EXCEPT
                                     !.checked = checked,
                                     !.found = nfound,
                                     !.sent = w.sent \o fe,
                                     !.iterations = w.iterations + 1,
                                     !.progress = w.progress \o
                                        [k \in 1..Len(pe) |->
                                           [checked |-> pe[k].checked,
                                            candidates |->
                                                w.iterations + 1]]]]
          /\ queue' = queue \o fe \o pe
    /\ UNCHANGED <<fsVars, dbVars, results, config, workers, total_checked,
                   total_found, btn_start, btn_stop, lastLog, main, stopIdx>>

(***************************************************************************)
(* The slots of the main thread.  A signal emitted by a worker thread is    *)
(* queued for the main thread and handled when that is back in its event    *)
(* loop: handle_found, update_stats and handle_error.                       *)
(***************************************************************************)
\* slots that ignore the signals of a thread that is no longer in the list
\* of workers
Deliver_pool_only ==
    /\ main = "idle"
    /\ queue # <<>>
    /\ LET e == Head(queue)
           known == e.obj \in Range(workers)
       IN
       /\ queue' = Tail(queue)
       /\ total_found' = IF e.type = "found" /\ known
                         THEN total_found + Len(e.matches)
                         ELSE total_found
       /\ results' = IF e.type = "found" /\ known
                     THEN Append(results, e)
                     ELSE results
       /\ total_checked' = IF e.type = "progress" /\ known
                           THEN total_checked + e.checked
                           ELSE total_checked
       /\ lastLog' = IF e.type = "found" /\ known THEN "Found match!"
                     ELSE IF e.type = "error" THEN "Worker error"
                     ELSE lastLog
    /\ UNCHANGED <<fsVars, dbVars, config, workers, thread, btn_start,
                   btn_stop, main, stopIdx>>

\* the slot of the signal at the head of the queue: handle_found (lines
\* 748-764), update_stats (766-779) or handle_error (789-791)
Deliver ==
    /\ main = "idle"
    /\ queue # <<>>
    /\ LET e == Head(queue) IN
       /\ queue' = Tail(queue)
       /\ total_found' = IF e.type = "found"
                         THEN total_found + Len(e.matches)
                         ELSE total_found
       /\ results' = IF e.type = "found" THEN Append(results, e) ELSE results
       /\ total_checked' = IF e.type = "progress"
                           THEN total_checked + e.checked
                           ELSE total_checked
       /\ lastLog' = IF e.type = "found" THEN "Found match!"
                     ELSE IF e.type = "error" THEN "Worker error"
                     ELSE lastLog
    /\ UNCHANGED <<fsVars, dbVars, config, workers, thread, btn_start,
                   btn_stop, main, stopIdx>>

(***************************************************************************)
(* Specifications.                                                          *)
(***************************************************************************)
\* the files on disk while a scan is explored
ScanFiles == [p \in Paths |->
                IF p = "p1" THEN File(1, TRUE, GoodLines)
                            ELSE File(1, TRUE, BlankLines)]

\* the settings of the check boxes that are explored
ActiveChoices == {<<>>, <<"P2PKH">>, ADDRESS_TYPES}

Init ==
    /\ files = ScanFiles
    /\ InitCommon

WordLengths == {"12", "24"}

\* The pool: workers whose generator never raises, over both files.
Next ==
    \/ \E p \in Paths : Load(p)
    \/ \E n \in 1..MaxWorkers, m \in Modes, a \in ActiveChoices :
          start_scan(n, m, a)
    \/ stop_scan
    \/ WaitFinished
    \/ WaitTimeout
    \/ Deliver
    \/ \E o \in Objects : RunBegin(o)
    \/ \E o \in Objects : LoopTest(o)
    \/ \E o \in Objects, wl \in WordLengths : Generate(o, FALSE, wl, 1, {})
    \/ \E o \in Objects : Check(o)

Spec == Init /\ [][Next]_vars

\* the next step of the thread of worker object o
ThreadStep(o) ==
    /\ o \in Objects
    /\ \/ RunBegin(o)
       \/ LoopTest(o)
       \/ \E wl \in WordLengths : Generate(o, FALSE, wl, 1, {})
       \/ Check(o)

\* Every started thread is scheduled, the event loop of the main thread
\* handles a queued signal when it is idle, and a wait in stop() returns.
FairSpec ==
    /\ Spec
    /\ WF_vars(Deliver)
    /\ WF_vars(WaitFinished)
    /\ WF_vars(WaitTimeout)
    /\ \A o \in 1..MaxWorkers : WF_vars(ThreadStep(o))

\* One worker per scan, whose generator may raise, with every check box
\* checked as in default_config.
NextWorker ==
    \/ Load("p1")
    \/ \E m \in Modes : start_scan(1, m, ADDRESS_TYPES)
    \/ stop_scan
    \/ WaitFinished
    \/ WaitTimeout
    \/ Deliver
    \/ \E o \in Objects : RunBegin(o)
    \/ \E o \in Objects : LoopTest(o)
    \/ \E o \in Objects, raises \in BOOLEAN, wl \in WordLengths :
          Generate(o, raises, wl, 1, {})
    \/ \E o \in Objects : Check(o)

SpecWorker == Init /\ [][NextWorker]_vars

\* One worker that runs long enough to emit progress signals: its generator
\* may raise, its mode is "24" and the loaded file holds no address of a
\* wallet of 24 words, so that no found signal is emitted.
NextProgress ==
    \/ Load("p1")
    \/ start_scan(1, "24", <<"P2PKH">>)
    \/ Deliver
    \/ \E o \in Objects : RunBegin(o)
    \/ \E o \in Objects : LoopTestWithin(o, MaxBatchIter)
    \/ \E o \in Objects, raises \in BOOLEAN : Generate(o, raises, "24", 1, {})
    \/ \E o \in Objects : Check(o)

SpecProgress == Init /\ [][NextProgress]_vars

\* One scan of one worker, of any mode, whose generate() may raise; the
\* scan is not stopped.
NextGenerate ==
    \/ Load("p1")
    \/ \E m \in Modes : start_scan(1, m, ADDRESS_TYPES)
    \/ Deliver
    \/ \E o \in Objects : RunBegin(o)
    \/ \E o \in Objects : LoopTest(o)
    \/ \E o \in Objects, raises \in BOOLEAN, wl \in WordLengths :
          Generate(o, raises, wl, 1, {})
    \/ \E o \in Objects : Check(o)

SpecGenerate == Init /\ [][NextGenerate]_vars

\* One worker of mode "12" whose derivations may raise for any set of
\* schemes.
Entropies == {1, 2}

NextDerive ==
    \/ Load("p1")
    \/ start_scan(1, "12", ADDRESS_TYPES)
    \/ Deliver
    \/ \E o \in Objects : RunBegin(o)
    \/ \E o \in Objects : LoopTest(o)
    \/ \E o \in Objects, ent \in Entropies,
          fail \in SUBSET Range(ADDRESS_TYPES) :
             Generate(o, FALSE, "12", ent, fail)
    \/ \E o \in Objects : Check(o)

SpecDerive == Init /\ [][NextDerive]_vars

\* One scan of one worker of mode "12" over a file that holds the addresses
\* of three of the four schemes of the first entropy; the check boxes and
\* the derivations that fail vary.
MatchLines == << <<"1", "a">>, <<"3", "a">>, <<"q", "a">> >>

MatchChoices == ActiveChoices \cup {<<"P2SH-P2WPKH", "P2WPKH">>}

MatchFails == {{}, {"P2PKH"}, {"P2PKH", "P2SH-P2WPKH"}, Range(ADDRESS_TYPES)}

InitMatch ==
    /\ files = [p \in Paths |-> File(1, TRUE, MatchLines)]
    /\ InitCommon

NextMatch ==
    \/ Load("p1")
    \/ \E active \in MatchChoices : start_scan(1, "12", active)
    \/ Deliver
    \/ \E o \in Objects : RunBegin(o)
    \/ \E o \in Objects : LoopTest(o)
    \/ \E o \in Objects, ent \in Entropies, fail \in MatchFails :
          Generate(o, FALSE, "12", ent, fail)
    \/ \E o \in Objects : Check(o)

SpecMatch == InitMatch /\ [][NextMatch]_vars

\* The database alone, over files that the environment writes and deletes.
InitLoad ==
    /\ files = [p \in Paths |-> NoFile]
    /\ InitCommon

NextLoad ==
    \/ \E p \in Paths, d \in FileData : WriteFile(p, d)
    \/ \E p \in Paths : DeleteFile(p)
    \/ \E p \in Paths : LoadRecorded(p)

SpecLoad == InitLoad /\ [][NextLoad]_vars

\* A load step by step, a reader, and files that the environment writes.
NextSwap ==
    \/ \E p \in Paths, d \in FileData : WriteFile(p, d)
    \/ \E p \in Paths : LoadBegin(p)
    \/ LoadLock
    \/ LoadAssign
    \/ LoadUnlock
    \/ \E call \in Calls : ReadLock(call)
    \/ ReadUnlock

SpecSwap == InitLoad /\ [][NextSwap]_vars

StartOnlyWhenNoWorkers ==
    (btn_start => workers = <<>>) /\ (btn_stop <=> workers # <<>>)


(***************************************************************************)
(* Properties.                                                              *)
(***************************************************************************)
\* every address that a line of an explored file can hold
Addresses == UNION {{Strip(d.lines[i]) : i \in 1..Len(d.lines)} : d \in FileData}
SampleCounts == 0..3

\* stop_scan has returned for the pool that o belonged to
StopReturned(o) == thread[o].stop_requested /\ main = "idle"

\* C1: when stop_scan has returned, every worker of the stopped pool has
\* left run() (is Stopped), so that none of them emits anything afterwards.
C1_AllStoppedWhenStopReturns ==
    \A o \in Objects : StopReturned(o) => thread[o].pc = "done"

\* C2: after stop() was called on a worker it completes at most one more
\* iteration, whenever the call came (also before line 269).
C2_AtMostOneIterationAfterStop ==
    \A o \in Objects : thread[o].after_stop <= 1

\* C3: a start_scan while the database holds no address creates no worker,
\* leaves the list of workers and the counters as they are and logs the
\* error.
C3_EmptyIndexStartFails ==
    [][((\E n \in 1..MaxWorkers, m \in Modes, a \in ActiveChoices :
            start_scan(n, m, a))
        /\ count(address_db) = 0)
       => /\ thread' = thread
          /\ workers' = workers
          /\ total_checked' = total_checked
          /\ total_found' = total_found
          /\ lastLog' = "Error: No addresses loaded"]_vars

\* a refused start after a scan that found something: the counters are kept
C3_Witness ==
    /\ lastLog = "Error: No addresses loaded"
    /\ count(address_db) = 0
    /\ total_found > 0
    /\ workers = <<>>

\* C4: no worker is created or left running by a start with no address
\* type selected.
C4_NoSchemesNoWorkers ==
    config.active_address_types = <<>> => workers = <<>>

\* C5: a worker never emits two found signals for the same generation.
C5_OneMatchPerCandidate ==
    \A o \in Objects :
        \A i, j \in 1..Len(thread[o].sent) :
            thread[o].sent[i].serial = thread[o].sent[j].serial => i = j

\* the found signals of worker object o in a sequence of events
RECURSIVE FoundOf(_, _)
FoundOf(events, o) ==
    IF events = <<>> THEN <<>>
    ELSE (IF Head(events).type = "found" /\ Head(events).obj = o
          THEN <<Head(events)>> ELSE <<>>) \o FoundOf(Tail(events), o)

\* C6 as stated: once a worker that was asked to stop has left run(), all
\* the found signals it emitted have been handled by handle_found.
C6_DeliveredWhenStopped ==
    \A o \in Objects :
        (thread[o].stop_requested /\ thread[o].pc = "done")
            => FoundOf(queue, o) = <<>>

\* C6 as amended: a found signal is never dropped.  The found signals a
\* worker has emitted are, in the order of emission, those handle_found has
\* handled followed by those still queued for the main thread.
C6_NoMatchDropped ==
    \A o \in Objects :
        thread[o].sent = FoundOf(results, o) \o FoundOf(queue, o)

\* every found signal emitted is handled by handle_found in the end
C6_EventuallyDelivered ==
    \A o \in 1..MaxWorkers, k \in 1..MaxIter :
        (o \in Objects /\ Len(thread[o].sent) >= k)
            ~> (Len(FoundOf(results, o)) >= k)

\* handle_found has handled a found signal emitted for the iteration that
\* was in flight when stop() was called, after the worker has stopped
C6_Witness ==
    \E o \in Objects :
        /\ thread[o].pc = "done"
        /\ \E i \in 1..Len(results) : results[i].obj = o /\ results[i].late

\* C7: a worker does not start another iteration after three failed
\* iterations in a row.
C7_StopsAfterThreeFailures ==
    \A o \in Objects : ~(thread[o].streak >= 3 /\ thread[o].pc = "generate")

\* C8: at the end of every iteration the worker has emitted one error
\* signal for each iteration in which generation raised.
C8_ErrorEventPerRaise ==
    \A o \in Objects :
        thread[o].pc = "loop" => thread[o].errors = thread[o].raised

\* C9: load returns True from the skip check exactly when its path and the
\* mtime it sees are those of the last load that built a snapshot.
C9_SkipIffLastSuccessfulLoad ==
    lastLoad.path # "" =>
        ((lastLoad.ret /\ lastLoad.skipped)
            <=> lastLoad.prevOk = <<lastLoad.path, lastLoad.mtime>>)

\* what the readers of the database answer
Answers(db) ==
    [size |-> count(db),
     contains |-> [a \in Addresses |-> contains(db, a)],
     sample |-> [n \in SampleCounts |-> get_sample_addresses(db, n)]]

\* C10: a load that returns False leaves the answers of contains, count and
\* get_sample_addresses, and the published set and list, as they were.
C10_FailedLoadKeepsSnapshot ==
    [][((\E p \in Paths : LoadRecorded(p)) /\ ~lastLoad'.ret)
       => /\ Answers(address_db') = Answers(address_db)
          /\ address_db'.addresses = address_db.addresses
          /\ address_db'.address_list = address_db.address_list]_vars

\* a load has failed on the second line of a file, after a line that is
\* not in the published snapshot was read
C10_Witness ==
    /\ lastLoad.path # ""
    /\ ~lastLoad.ret
    /\ count(address_db) > 0
    /\ files[lastLoad.path].exists
    /\ files[lastLoad.path].mtime = lastLoad.mtime
    /\ files[lastLoad.path].readable
    /\ files[lastLoad.path].lines = BadLines
    /\ ~contains(address_db, Strip(BadLines[1]))

\* worker object o is Running: its thread executes run() and has not left it
Running(o) == thread[o].pc \in {"loop", "generate", "check"}

\* C11: load_address_file does not replace the published snapshot while a
\* worker is Running.
C11_NoLoadWhileRunning ==
    [][((\E p \in Paths : Load(p)) /\ (\E o \in Objects : Running(o)))
       => /\ address_db'.addresses = address_db.addresses
          /\ address_db'.address_list = address_db.address_list
          /\ address_db'.count = address_db.count]_vars

\* C15: when the wait of stop() times out on a worker, stop() terminates
\* that worker before it returns.
C15_TimeoutTerminatesWorker ==
    [][WaitTimeout => thread'[workers[stopIdx]].pc = "done"]_vars

\* C16: a start_scan that gets past line 696 leaves in the list of workers
\* thread_limit objects, all created by this call, with pairwise distinct
\* ids and the mode of the configuration of this call.
C16_PoolAfterStart ==
    [][((\E n \in 1..MaxWorkers, m \in Modes, a \in ActiveChoices :
            start_scan(n, m, a))
        /\ count(address_db) > 0)
       => /\ Len(workers') = config'.thread_limit
          /\ \A i \in 1..Len(workers') :
                /\ workers'[i] \in 1..Len(thread')
                /\ workers'[i] \notin Objects
                /\ thread'[workers'[i]].mode = config'.mnemonic_mode
                /\ thread'[workers'[i]].pc = "started"
          /\ \A i, j \in 1..Len(workers') :
                thread'[workers'[i]].id = thread'[workers'[j]].id => i = j]_vars

\* a pool created by a second start, while the object of the first exists
C16_Witness ==
    /\ workers # <<>>
    /\ Len(thread) > Len(workers)

\* C17: the configuration does not change while a worker object is
\* Running.
C17_ConfigFixedWhileRunning ==
    [][(\E o \in Objects : Running(o))
       => /\ config'.active_address_types = config.active_address_types
          /\ \A o \in Objects :
                Running(o) => thread'[o].mode = thread[o].mode]_vars

\* C13: a progress signal is emitted only after a multiple of 100
\* candidates, and the count it carries is the number of candidates the
\* worker has processed.
C13_ProgressEvery100Candidates ==
    \A o \in Objects :
        \A k \in 1..Len(thread[o].progress) :
            /\ thread[o].progress[k].candidates % 100 = 0
            /\ thread[o].progress[k].checked = thread[o].progress[k].candidates

\* C14: _checked of a worker object never decreases, and every progress
\* signal of the object carries a larger count than the one before it.
C14_CheckedMonotonic ==
    [][\A o \in Objects :
          /\ thread'[o].checked >= thread[o].checked
          /\ (Len(thread'[o].progress) > Len(thread[o].progress)
              /\ thread[o].progress # <<>>)
             => thread'[o].progress[Len(thread'[o].progress)].checked
                  > thread[o].progress[Len(thread[o].progress)].checked]_vars

\* a worker with a failed iteration and an iteration that re-used the last
\* generation has emitted two progress signals
C14_Witness ==
    \E o \in Objects :
        /\ Len(thread[o].progress) >= 2
        /\ thread[o].errors > 0
        /\ thread[o].raised > thread[o].errors

\* C18: when the derivations of the schemes in fail raise, generate() still
\* returns the candidate; its address is None for the schemes in fail and,
\* for every other scheme, the address derived when no scheme fails.
C18_DerivationFailureIsLocal ==
    [][\A o \in Objects, wl \in WordLengths, ent \in Entropies,
          fail \in SUBSET Range(ADDRESS_TYPES) :
          Generate(o, FALSE, wl, ent, fail)
          => LET g == thread'[o].last_generation IN
             /\ thread'[o].pc = "check"
             /\ \A t \in Range(ADDRESS_TYPES) :
                   g.addresses[t] = IF t \in fail
                                    THEN None
                                    ELSE ToAddress(g.mnemonic, t)]_vars

\* a candidate with a scheme that failed was processed and matched on
\* another scheme
C18_Witness ==
    \E o \in Objects :
        /\ thread[o].pc = "loop"
        /\ thread[o].sent # <<>>
        /\ LET e == thread[o].sent[Len(thread[o].sent)]
               g == thread[o].last_generation
           IN /\ e.serial = g.serial
              /\ \E t \in Range(ADDRESS_TYPES) : g.addresses[t] = None

\* the distinct non-blank lines of a file, trimmed
TrimmedLines(lines) == {Strip(lines[i]) : i \in 1..Len(lines)} \ {<<>>}

\* C19: after a load that returned True, count is the number of distinct
\* non-blank trimmed lines of the file.
C19_SizeAfterSuccessfulLoad ==
    [][((\E p \in Paths : LoadRecorded(p)) /\ lastLoad'.ret)
       => count(address_db')
            = Cardinality(TrimmedLines(files[lastLoad'.path].lines))]_vars

\* the same, for the loads that read the file (lines 133-166)
C19_SizeAfterRead ==
    [][((\E p \in Paths : LoadRecorded(p))
        /\ lastLoad'.ret /\ ~lastLoad'.skipped)
       => count(address_db')
            = Cardinality(TrimmedLines(files[lastLoad'.path].lines))]_vars

\* C20: after a load that returned True, contains(a) holds exactly for the
\* trimmed non-blank lines of the file; case is significant.
C20_ContainsAfterSuccessfulLoad ==
    [][((\E p \in Paths : LoadRecorded(p)) /\ lastLoad'.ret)
       => \A a \in Addresses \ {<<>>} :
             contains(address_db', a)
                <=> a \in TrimmedLines(files[lastLoad'.path].lines)]_vars

\* the same, for the loads that read the file (lines 133-166)
C20_ContainsAfterRead ==
    [][((\E p \in Paths : LoadRecorded(p))
        /\ lastLoad'.ret /\ ~lastLoad'.skipped)
       => \A a \in Addresses \ {<<>>} :
             contains(address_db', a)
                <=> a \in TrimmedLines(files[lastLoad'.path].lines)]_vars

\* C12: what a call of count, contains or get_sample_addresses sees of the
\* database is a complete snapshot: the count is the cardinality of the set
\* and the list has the elements of the set.
C12_ReadersSeeCompleteSnapshot ==
    /\ reading.seen.count = Cardinality(reading.seen.addresses)
    /\ Range(reading.seen.address_list) = reading.seen.addresses
    /\ reading.pc = "locked"
         => /\ address_db.count = Cardinality(address_db.addresses)
            /\ Range(address_db.address_list) = address_db.addresses

\* a reader holds the lock while a load waits to publish another snapshot
\* over one that holds addresses
C12_Witness ==
    /\ reading.pc = "locked"
    /\ loading.pc = "acquire"
    /\ address_db.addresses # {}
    /\ Cardinality(loading.temp_set) # address_db.count

\* s is a subsequence of t: the elements of s, in their order, at
\* increasing positions of t
RECURSIVE IsSubsequence(_, _)
IsSubsequence(s, t) ==
    IF s = <<>> THEN TRUE
    ELSE IF t = <<>> THEN FALSE
    ELSE IF Head(s) = Head(t) THEN IsSubsequence(Tail(s), Tail(t))
    ELSE IsSubsequence(s, Tail(t))

\* what C21 asks of get_sample_addresses for the count n
SampleAsSpecified(db, n) ==
    LET r == get_sample_addresses(db, n)
        total == Len(db.address_list)
    IN /\ ~r.raised
       /\ Len(r.value) <= n
       /\ IsSubsequence(r.value, db.address_list)
       /\ total > n
            => \A i \in 1..Len(r.value) :
                  r.value[i] = db.address_list[(i - 1) * (total \div n) + 1]

\* C21: for every count, 0 and counts above the total included,
\* get_sample_addresses returns without raising at most count items, a
\* subsequence of address_list, strided by total div count.
C21_SampleForEveryCount ==
    \A n \in SampleCounts : SampleAsSpecified(address_db, n)

\* the same, for the counts above 0
C21_SampleForPositiveCount ==
    \A n \in SampleCounts \ {0} : SampleAsSpecified(address_db, n)

\* the word counts that a mode allows
WordsOf(mode) ==
    CASE mode = "12" -> {12}
      [] mode = "24" -> {24}
      [] OTHER -> {12, 24}

\* C22: the mnemonic that generate() returned to the worker, and every
\* mnemonic of the history, has the word count of the generator's mode, also
\* when the call returned the last generation after a failed attempt.
C22_WordCountByMode ==
    \A o \in Objects :
       LET w == thread[o] IN
       /\ w.pc = "check" => w.last_generation.mnemonic.words \in WordsOf(w.mode)
       /\ \A i \in 1..Len(w.generation_history) :
             w.generation_history[i].mnemonic.words \in WordsOf(w.mode)

\* a worker of mode "24" is processing the generation that generate()
\* returned after its second attempt failed
C22_Witness ==
    \E o \in Objects :
       /\ thread[o].pc = "check"
       /\ thread[o].mode = "24"
       /\ thread[o].generated = 1
       /\ thread[o].iterations = 1
       /\ thread[o].raised > 0
       /\ thread[o].last_generation.mnemonic.words = 24

\* the position of x in the sequence s
PositionIn(s, x) == CHOOSE i \in 1..Len(s) : s[i] = x

\* the (scheme, address) pairs of the generation g that C23 expects in an
\* event: the active schemes with an address that the index contains
ActiveHits(g) ==
    {<<t, g.addresses[t]>> :
        t \in {x \in Range(config.active_address_types) :
                  /\ g.addresses[x] # None
                  /\ g.addresses[x] \in address_db.addresses}}

\* C23: processing a candidate emits a found signal exactly when an active
\* scheme has a derived address that the index contains; its matches are
\* exactly these (scheme, address) pairs, in the order of the active schemes.
C23_MatchEventForActiveHits ==
    [][\A o \in Objects :
          (thread[o].pc = "check" /\ thread'[o].pc # "check")
          => LET w == thread[o]
                 g == w.last_generation
                 active == config.active_address_types
                 sent == thread'[o].sent
                 new == SubSeq(sent, Len(w.sent) + 1, Len(sent))
                 found == {i \in 1..Len(queue') : queue'[i].type = "found"}
                 before == {i \in 1..Len(queue) : queue[i].type = "found"}
             IN /\ Len(new) = IF ActiveHits(g) = {} THEN 0 ELSE 1
                /\ Cardinality(found) = Cardinality(before) + Len(new)
                /\ \A k \in 1..Len(new) :
                      LET m == new[k].matches IN
                      /\ new[k].mnemonic = g.mnemonic
                      /\ \E i \in found : queue'[i] = new[k]
                      /\ Range(m) = ActiveHits(g)
                      /\ Len(m) = Cardinality(ActiveHits(g))
                      /\ \A i, j \in 1..Len(m) :
                            i < j => PositionIn(active, m[i][1])
                                        < PositionIn(active, m[j][1])]_vars

\* a found signal with two matches was emitted for a candidate with the
\* address of a scheme that is not active in the index
C23_Witness ==
    \E o \in Objects :
        /\ thread[o].pc = "loop"
        /\ thread[o].sent # <<>>
        /\ LET e == thread[o].sent[Len(thread[o].sent)]
               g == thread[o].last_generation
           IN /\ e.serial = g.serial
              /\ Len(e.matches) = 2
              /\ \E t \in Range(ADDRESS_TYPES) \ Range(config.active_address_types) :
                    /\ g.addresses[t] # None
                    /\ g.addresses[t] \in address_db.addresses

\* the lifecycle state of a worker object: Stopped once run() has returned,
\* Running while _running is set, Stopping once stop() has cleared it, Idle
\* before
Lifecycle(w) ==
    IF w.pc = "done" THEN "Stopped"
    ELSE IF w.running THEN "Running"
    ELSE IF w.stop_requested THEN "Stopping"
    ELSE IF w.pc = "started" THEN "Idle"
    ELSE "Stopping"

LifecycleRank(l) ==
    CASE l = "Idle" -> 0
      [] l = "Running" -> 1
      [] l = "Stopping" -> 2
      [] l = "Stopped" -> 3

\* C24: no step takes a worker backwards in Idle, Running, Stopping,
\* Stopped; in particular none takes it from Stopping or Stopped to Running.
C24_LifecycleOnlyForward ==
    [][\A o \in Objects :
          LifecycleRank(Lifecycle(thread[o]))
             <= LifecycleRank(Lifecycle(thread'[o]))]_vars

\* the part of C24 about Stopped: a worker whose run() has returned stays so
C24_StoppedIsTerminal ==
    [][\A o \in Objects :
          thread[o].pc = "done" => thread'[o] = thread[o]]_vars

\* C25: generation_history holds at most DISPLAY_HISTORY generations: the
\* most recent successful ones, oldest first.
C25_HistoryIsMostRecent ==
    \A o \in Objects :
       LET w == thread[o]
           h == w.generation_history
       IN /\ Len(h) <= DISPLAY_HISTORY
          /\ Len(h) = Min(w.generated, DISPLAY_HISTORY)
          /\ \A i \in 1..Len(h) : h[i].serial = w.generated - Len(h) + i
          /\ h # <<>> => h[Len(h)] = w.last_generation

\* a generator that has evicted generations and had failed attempts
C25_Witness ==
    \E o \in Objects :
       /\ thread[o].generated > DISPLAY_HISTORY + 1
       /\ thread[o].raised > 0
       /\ thread[o].generation_history[1].serial > 1

\* "checked" of the last progress signal of the worker object o that
\* update_stats has handled (0 when none): signals are handled in the order
\* they were emitted, so those not handled yet are the last ones emitted
LatestDelivered(o) ==
    LET pending == Cardinality({i \in 1..Len(queue) :
                                   /\ queue[i].type = "progress"
                                   /\ queue[i].obj = o})
        handled == Len(thread[o].progress) - pending
    IN IF handled = 0 THEN 0 ELSE thread[o].progress[handled].checked

RECURSIVE SumLatestDelivered(_)
SumLatestDelivered(n) ==
    IF n = 0 THEN 0 ELSE LatestDelivered(n) + SumLatestDelivered(n - 1)

\* C26: during a scan, total_checked is the sum over the workers of the
\* "checked" of the last progress signal handled for each of them.
C26_TotalIsSumOfLatest ==
    total_checked = SumLatestDelivered(Len(thread))

=============================================================================
